---- MODULE Spec2Model ----
(***************************************************************************)
(* Emma chat engine (src/emma/chat.py): Message, Conversation and          *)
(* ChatSession, with the conversation directory and the Ollama backend as  *)
(* the environment.                                                        *)
(*                                                                         *)
(* Python text is a sequence of atoms: an atom is one character ("<", ">", *)
(* "/", " ", "\n") or a run of characters that holds none of these.        *)
(* A Python value that may be of any type (a decoded JSON value, a message *)
(* content) is a tagged record: Str, Num, Null, Obj, List below.           *)
(* datetime.now().isoformat() is the integer clock; uuid.uuid4() is the    *)
(* next unused integer.                                                    *)
(***************************************************************************)
EXTENDS Integers, Sequences, FiniteSets, TLC

VARIABLES
    clock,          \* datetime.now()
    nextId,         \* the next value of uuid.uuid4()
    conv,           \* a Conversation object driven directly (SpecConv)
    config,         \* session -> Config (read-only)
    conversation,   \* session -> self.conversation
    pc,             \* session -> where get_response stands
    pending,        \* session -> the user_input of the call in progress
    calls,          \* session -> the backend calls of the current/last get_response
    dirExists,      \* os.path.exists(conversation_dir)
    files,          \* the *.json files of conversation_dir: id -> content
    last            \* the operation that has just completed, with its result

vars == <<clock, nextId, conv, config, conversation, pc, pending, calls,
          dirExists, files, last>>

----------------------------------------------------------------------------
\* Bounds of the model.

MaxClock == 1
MaxIds == 3
MaxMessages == 5
MaxStoreMessages == 3
MaxConvMessages == 2
MaxPieces == 4

----------------------------------------------------------------------------
\* Python values.

Str(s) == [t |-> "str", v |-> s]
Num(n) == [t |-> "num", v |-> n]
Null == [t |-> "null"]
Obj(pairs) == [t |-> "obj", v |-> pairs]       \* pairs: <<[k |-> key, x |-> value], ...>> in key order
List(items) == [t |-> "list", v |-> items]

\* bool(value): Python truthiness.
Truthy(x) ==
    CASE x.t = "str" -> x.v # << >>
      [] x.t = "num" -> x.v # 0
      [] x.t = "null" -> FALSE
      [] x.t = "obj" -> x.v # << >>
      [] x.t = "list" -> x.v # << >>

Whitespace == {" ", "\n"}

\* str.strip()
RECURSIVE lstrip(_)
lstrip(s) == IF s # << >> /\ Head(s) \in Whitespace THEN lstrip(Tail(s)) ELSE s

RECURSIVE rstrip(_)
rstrip(s) ==
    IF s # << >> /\ s[Len(s)] \in Whitespace THEN rstrip(SubSeq(s, 1, Len(s) - 1)) ELSE s

strip(s) == rstrip(lstrip(s))

\* `needle in text` for two str.
str_contains(text, needle) ==
    \E i \in 1..(Len(text) - Len(needle) + 1) :
        SubSeq(text, i, i + Len(needle) - 1) = needle

----------------------------------------------------------------------------
\* class Message

Message(role, content, now) == [role |-> role, content |-> content, timestamp |-> now]

\* to_dict that leaves the timestamp out.
Message_to_dict_no_timestamp(msg) == [role |-> msg.role, content |-> msg.content]

Message_to_dict(msg) ==
    [role |-> msg.role, content |-> msg.content, timestamp |-> msg.timestamp]

\* data["role"] or data["content"] raises KeyError when the key is missing.
Message_from_dict_raises(data) == ~({"role", "content"} \subseteq DOMAIN data)

Message_from_dict(data, now) ==
    LET msg == Message(data["role"], data["content"], now)
    IN  IF "timestamp" \in DOMAIN data
        THEN [msg EXCEPT !.timestamp = data["timestamp"]]
        ELSE msg

----------------------------------------------------------------------------
\* class Conversation

add_message(c, role, content, now) ==
    [c EXCEPT !.messages = Append(@, Message(role, content, now)), !.updated_at = now]

add_system_message(c, content, now) == add_message(c, "system", content, now)
add_user_message(c, content, now) == add_message(c, "user", content, now)
add_assistant_message(c, content, now) == add_message(c, "assistant", content, now)

\* Conversation(system_prompt): system_prompt is a str.
Conversation(system_prompt, uuid, now) ==
    LET c0 == [id |-> uuid, messages |-> << >>]
        c1 == IF system_prompt # << >>
              THEN [c0 EXCEPT !.messages = Append(@, Message("system", Str(system_prompt), now))]
              ELSE c0
    IN  [id |-> c1.id, messages |-> c1.messages, created_at |-> now, updated_at |-> now]

Conversation_to_dict(c) ==
    [id |-> c.id,
     messages |-> [i \in 1..Len(c.messages) |-> Message_to_dict(c.messages[i])],
     created_at |-> c.created_at,
     updated_at |-> c.updated_at]

\* dict.get(key, default)
dict_get(data, key, default) == IF key \in DOMAIN data THEN data[key] ELSE default

Conversation_from_dict_raises(data) ==
    \E i \in 1..Len(dict_get(data, "messages", << >>)) :
        Message_from_dict_raises(data["messages"][i])

\* from_dict that keeps the created_at of the object it has just constructed.
Conversation_from_dict_new_created_at(data, uuid, now) ==
    LET c == Conversation(<< >>, uuid, now)
        msgs == dict_get(data, "messages", << >>)
    IN  [c EXCEPT !.id = dict_get(data, "id", uuid),
                  !.messages = [i \in 1..Len(msgs) |-> Message_from_dict(msgs[i], now)],
                  !.updated_at = dict_get(data, "updated_at", now)]

Conversation_from_dict(data, uuid, now) ==
    LET c == Conversation(<< >>, uuid, now)
        msgs == dict_get(data, "messages", << >>)
    IN  [c EXCEPT !.id = dict_get(data, "id", uuid),
                  !.messages = [i \in 1..Len(msgs) |-> Message_from_dict(msgs[i], now)],
                  !.created_at = dict_get(data, "created_at", now),
                  !.updated_at = dict_get(data, "updated_at", now)]

\* A projection that keeps the timestamp of each message.
to_ollama_messages_with_timestamp(c) ==
    [i \in 1..Len(c.messages) |->
        [role |-> c.messages[i].role, content |-> c.messages[i].content,
         timestamp |-> c.messages[i].timestamp]]

to_ollama_messages(c) ==
    [i \in 1..Len(c.messages) |->
        [role |-> c.messages[i].role, content |-> c.messages[i].content]]

\* A slice that counts from the front of the list.
get_last_messages_from_front(c, limit) ==
    IF limit > 0
    THEN SubSeq(c.messages, 1, IF limit < Len(c.messages) THEN limit ELSE Len(c.messages))
    ELSE c.messages

get_last_messages(c, limit) ==
    IF limit > 0
    THEN SubSeq(c.messages, IF Len(c.messages) - limit + 1 > 1
                            THEN Len(c.messages) - limit + 1 ELSE 1, Len(c.messages))
    ELSE c.messages

----------------------------------------------------------------------------
\* The backend's answer to one POST /api/chat, as requests sees it:
\*   [kind |-> "error", detail |-> text]   requests.post or raise_for_status raised
\*                                         a RequestException (str(e) = detail)
\*   [kind |-> "text", body |-> text]      status 2xx, response.json() raises
\*                                         JSONDecodeError, response.text = body
\*   [kind |-> "json", body |-> value]     status 2xx, response.json() = body

Raise == [st |-> "raise"]
Ok(x) == [st |-> "ok", val |-> x]

\* obj[key] for a dict given as ordered pairs.
RECURSIVE pairs_get(_, _)
pairs_get(pairs, key) ==
    IF Head(pairs).k = key THEN Head(pairs).x ELSE pairs_get(Tail(pairs), key)

pairs_has(pairs, key) == \E i \in 1..Len(pairs) : pairs[i].k = key

\* `key in x` for a str key: membership in a dict or list, substring of a str,
\* TypeError on a number or None.
py_in(key, x) ==
    CASE x.t = "obj" -> Ok(pairs_has(x.v, key))
      [] x.t = "list" -> Ok(\E i \in 1..Len(x.v) : x.v[i] = Str(<<key>>))
      [] x.t = "str" -> Ok(str_contains(x.v, <<key>>))
      [] OTHER -> Raise

\* x[key] for a str key (after `key in x` held): a dict's value, TypeError otherwise.
py_getitem(x, key) == IF x.t = "obj" THEN Ok(pairs_get(x.v, key)) ELSE Raise

\* if "message" in response_data and "content" in response_data["message"]: ...
\* elif "response" in response_data: ...
\* Ok(value) for the field taken, [st |-> "none"] when neither branch is taken.
message_or_response(response_data) ==
    LET inMsg == py_in("message", response_data)
        msg == py_getitem(response_data, "message")
        inContent == py_in("content", msg.val)
        inResp == py_in("response", response_data)
    IN  IF inMsg.st = "raise" THEN Raise
        ELSE IF inMsg.val /\ msg.st = "raise" THEN Raise
        ELSE IF inMsg.val /\ inContent.st = "raise" THEN Raise
        ELSE IF inMsg.val /\ inContent.val THEN py_getitem(msg.val, "content")
        ELSE IF inResp.st = "raise" THEN Raise
        ELSE IF inResp.val THEN py_getitem(response_data, "response")
        ELSE [st |-> "none"]

NO_SEARCH == <<"NO_SEARCH">>

\* analyze_prompt that compares the untrimmed text with NO_SEARCH.
analyze_prompt_no_strip(answer) ==
    IF answer.kind # "json" THEN Null
    ELSE LET got == message_or_response(answer.body)
         IN  IF got.st = "raise" THEN Null
             ELSE IF got.st = "none" THEN Str(<< >>)
             ELSE IF got.val.t # "str" THEN Null
             ELSE IF got.val.v # NO_SEARCH THEN Str(strip(got.val.v))
             ELSE Null

\* ChatSession.analyze_prompt, given the backend's answer: None (Null) or a str.
analyze_prompt(answer) ==
    IF answer.kind # "json" THEN Null
    ELSE LET got == message_or_response(answer.body)
             analysis_result ==
                 IF got.st = "none" THEN << >> ELSE strip(got.val.v)
         IN  IF got.st = "raise" THEN Null
             ELSE IF got.st = "ok" /\ got.val.t # "str" THEN Null   \* .strip() raises
             ELSE IF analysis_result # NO_SEARCH THEN Str(analysis_result)
             ELSE Null

----------------------------------------------------------------------------
\* ChatSession.process_search_commands: re.sub(r'<([^>]+)>(.*?)</\1>', replace_search, text)

replace_search(search_type, query, whole) ==
    CASE search_type = <<"search">> -> <<"[Searching internet for: ">> \o query \o <<"]">>
      [] search_type = <<"memory">> -> <<"[Searching memory for: ">> \o query \o <<"]">>
      [] search_type = <<"query">> -> <<"[Querying database for: ">> \o query \o <<"]">>
      [] OTHER -> whole

\* The index of the first ">" after position i, 0 when there is none.
first_gt(text, i) ==
    LET js == {j \in (i + 1)..Len(text) : text[j] = ">"}
    IN  IF js = {} THEN 0 ELSE CHOOSE j \in js : \A k \in js : j <= k

\* The match of the pattern that starts at position i: [ok, kind, query, end].
match_at(text, i) ==
    LET j == first_gt(text, i)
        kind == SubSeq(text, i + 1, j - 1)
        closer == <<"<", "/">> \o kind \o <<">">>
        ps == {p \in (j + 1)..(Len(text) - Len(closer) + 1) :
                  /\ SubSeq(text, p, p + Len(closer) - 1) = closer
                  /\ \A q \in (j + 1)..(p - 1) : text[q] # "\n"}
        p0 == CHOOSE p \in ps : \A q \in ps : p <= q
    IN  IF text[i] # "<" \/ j = 0 \/ j = i + 1 \/ ps = {}
        THEN [ok |-> FALSE]
        ELSE [ok |-> TRUE, kind |-> kind, query |-> SubSeq(text, j + 1, p0 - 1),
              end |-> p0 + Len(closer) - 1]

RECURSIVE re_sub(_, _)
re_sub(text, i) ==
    IF i > Len(text) THEN << >>
    ELSE LET m == match_at(text, i)
         IN  IF m.ok
             THEN replace_search(m.kind, m.query, SubSeq(text, i, m.end))
                      \o re_sub(text, m.end + 1)
             ELSE <<text[i]>> \o re_sub(text, i + 1)

process_search_commands(text) == re_sub(text, 1)

----------------------------------------------------------------------------
\* The reply extraction of get_response (lines 261-289), given the backend's 2xx
\* answer: Ok(assistant_message) or Raise (an exception that neither except
\* clause of get_response catches).

\* for key, value in response_data.items(): the first dict holding "content" or
\* the first str with value.strip(); "" when there is none.
RECURSIVE scan_items(_)
scan_items(pairs) ==
    IF pairs = << >> THEN Str(<< >>)
    ELSE LET value == Head(pairs).x
         IN  IF value.t = "obj" /\ pairs_has(value.v, "content")
             THEN pairs_get(value.v, "content")
             ELSE IF value.t = "str" /\ strip(value.v) # << >> THEN value
             ELSE scan_items(Tail(pairs))

APOLOGY == <<"Lo siento, no pude generar una respuesta.">>

extract_assistant_message(answer) ==
    LET got == IF answer.kind = "text" THEN Ok(Str(strip(answer.body)))
               ELSE LET f == message_or_response(answer.body)
                    IN  IF f.st # "none" THEN f
                        ELSE IF answer.body.t # "obj" THEN Raise   \* .items()
                        ELSE Ok(scan_items(answer.body.v))
    IN  IF got.st = "raise" THEN Raise
        ELSE IF ~Truthy(got.val) THEN Ok(Str(APOLOGY))
        ELSE got

ERROR_PREFIX == <<"Error al comunicarse con Ollama: ">>
----------------------------------------------------------------------------
\* Config (emma/config.py supplies it; the core only reads it).

Sessions == {"s1", "s2"}

USER_NAME == <<"Oz">>
SYSTEM_PROMPT == <<"Eres Emma.">>
INSTRUCTIONS == <<"Tu tarea es analizar el prompt del usuario ...">>

\* personalities: name -> system prompt text.
Personalities ==
    [amable |-> <<"Eres amable con ", "Oz", ".">>,
     vacia |-> << >>]

PersonalityNames == <<"amable", "vacia", "desconocida">>

Config(save_conversations) ==
    [system_prompt |-> SYSTEM_PROMPT, user_name |-> USER_NAME,
     personalities |-> Personalities, save_conversations |-> save_conversations]

\* Config.get_personality(name): the prompt of a configured personality, None
\* for a name that is not configured.
get_personality(cfg, name) ==
    IF name \in DOMAIN cfg.personalities THEN Str(cfg.personalities[name]) ELSE Null

----------------------------------------------------------------------------
\* class ChatSession

\* __init__: the Conversation the session starts with.
ChatSession_init(cfg, uuid, now) ==
    LET p0 == cfg.system_prompt
        p1 == IF ~str_contains(p0, <<"Oz">>) /\ cfg.user_name = <<"Oz">>
              THEN p0 \o <<" Estás interactuando con ">> \o cfg.user_name
                      \o <<", un usuario de la interfaz Emma.">>
              ELSE p0
    IN  Conversation(p1 \o INSTRUCTIONS, uuid, now)

\* change_personality that starts a new conversation before looking at the prompt.
change_personality_eager(cfg, c, personality_name, uuid, now) ==
    LET system_prompt == get_personality(cfg, personality_name)
    IN  IF Truthy(system_prompt)
        THEN [ret |-> TRUE, conversation |-> Conversation(system_prompt.v, uuid, now)]
        ELSE [ret |-> FALSE, conversation |-> Conversation(<< >>, uuid, now)]

\* change_personality: [ret, conversation].
change_personality(cfg, c, personality_name, uuid, now) ==
    LET system_prompt == get_personality(cfg, personality_name)
        p1 == IF ~str_contains(system_prompt.v, cfg.user_name)
              THEN system_prompt.v \o <<" Estás conversando con ">> \o cfg.user_name \o <<".">>
              ELSE system_prompt.v
    IN  IF Truthy(system_prompt)
        THEN [ret |-> TRUE, conversation |-> Conversation(p1, uuid, now)]
        ELSE [ret |-> FALSE, conversation |-> c]

\* The lookup branch returning the command as the analysis gave it.
get_response_lookup_raw(c, user_input, search_command, now) ==
    [conversation |-> add_assistant_message(add_user_message(c, user_input, now),
                          Str(process_search_commands(search_command.v)), now),
     ret |-> search_command]

\* get_response, lookup branch (lines 229-234): [conversation, ret].
get_response_lookup(c, user_input, search_command, now) ==
    LET processed_command == Str(process_search_commands(search_command.v))
    IN  [conversation |-> add_assistant_message(add_user_message(c, user_input, now),
                                                processed_command, now),
         ret |-> processed_command]

\* The handler letting the RequestException through.
on_request_exception_reraise(c, detail, now) ==
    [conversation |-> c, raised |-> TRUE, ret |-> Null, save |-> FALSE]

\* get_response, except requests.RequestException (lines 300-304).
on_request_exception(c, detail, now) ==
    LET error_msg == Str(ERROR_PREFIX \o detail)
    IN  [conversation |-> add_assistant_message(c, error_msg, now),
         raised |-> FALSE, ret |-> error_msg, save |-> FALSE]

\* get_response from the answer of the generation call (lines 256-304):
\* [conversation, raised, ret, save]; save says that line 295 is reached.
\* A reply that is recorded and returned without asking for the save.
get_response_reply_no_save(c, answer, now) ==
    LET got == extract_assistant_message(answer)
    IN  IF answer.kind = "error" THEN on_request_exception(c, answer.detail, now)
        ELSE IF got.st = "raise"
        THEN [conversation |-> c, raised |-> TRUE, ret |-> Null, save |-> FALSE]
        ELSE [conversation |-> add_assistant_message(c, got.val, now),
              raised |-> FALSE, ret |-> got.val, save |-> FALSE]

get_response_reply(c, answer, now) ==
    LET got == extract_assistant_message(answer)
    IN  IF answer.kind = "error" THEN on_request_exception(c, answer.detail, now)
        ELSE IF got.st = "raise"
        THEN [conversation |-> c, raised |-> TRUE, ret |-> Null, save |-> FALSE]
        ELSE [conversation |-> add_assistant_message(c, got.val, now),
              raised |-> FALSE, ret |-> got.val, save |-> TRUE]

\* A file of conversation_dir: [valid |-> TRUE, data |-> dict] holds the JSON text
\* of dict; [valid |-> FALSE] holds text json.load rejects.
json_dump(data) == [valid |-> TRUE, data |-> data]
BROKEN_FILE == [valid |-> FALSE]

\* How the file system answers one _save_conversation:
\*   "ok"           open and json.dump succeed
\*   "open_error"   open(filepath, 'w') raises: the directory entry is untouched
\*   "write_error"  open truncated the file and json.dump raised before the end
SaveOutcomes == <<"ok", "open_error", "write_error">>

\* A save that keeps the file an id already has.
_save_conversation_keep(fs, exists, c, io) ==
    IF ~exists \/ io = "open_error" THEN fs
    ELSE IF io = "write_error" THEN (c.id :> BROKEN_FILE) @@ fs
    ELSE fs @@ (c.id :> json_dump(Conversation_to_dict(c)))

\* _save_conversation: the files after it.
_save_conversation(fs, exists, c, io) ==
    IF ~exists \/ io = "open_error" THEN fs
    ELSE IF io = "write_error" THEN (c.id :> BROKEN_FILE) @@ fs
    ELSE (c.id :> json_dump(Conversation_to_dict(c))) @@ fs

\* A load that drops the active conversation before it decodes the file.
load_conversation_reset(fs, c, conversation_id, uuid, now) ==
    LET failed == [ret |-> FALSE, conversation |-> Conversation(<< >>, c.id, now),
                   used_uuid |-> FALSE]
    IN  IF conversation_id \notin DOMAIN fs THEN [failed EXCEPT !.conversation = c]
        ELSE IF ~fs[conversation_id].valid THEN failed
        ELSE IF Conversation_from_dict_raises(fs[conversation_id].data) THEN failed
        ELSE [ret |-> TRUE,
              conversation |-> Conversation_from_dict(fs[conversation_id].data, uuid, now),
              used_uuid |-> "id" \notin DOMAIN fs[conversation_id].data]

\* load_conversation: [ret, conversation, used_uuid].
load_conversation(fs, c, conversation_id, uuid, now) ==
    LET failed == [ret |-> FALSE, conversation |-> c, used_uuid |-> FALSE]
    IN  IF conversation_id \notin DOMAIN fs THEN failed
        ELSE IF ~fs[conversation_id].valid THEN failed
        ELSE IF Conversation_from_dict_raises(fs[conversation_id].data) THEN failed
        ELSE [ret |-> TRUE,
              conversation |-> Conversation_from_dict(fs[conversation_id].data, uuid, now),
              used_uuid |-> "id" \notin DOMAIN fs[conversation_id].data]

\* "" where an id or an ISO timestamp is expected: below every timestamp.
EMPTY == -1
PREVIEW_LEN == 50

\* The summary of one file's data (lines 368-374): Ok(summary) or Raise.
summary_of(data) ==
    LET msgs == dict_get(data, "messages", <<[x \in {} |-> 0]>>)
        content == dict_get(msgs[1], "content", Str(<< >>))
    IN  IF msgs = << >> THEN Raise                 \* [][0]: IndexError
        ELSE IF content.t # "str" THEN Raise       \* [:50] + "...": TypeError
        ELSE Ok([id |-> dict_get(data, "id", EMPTY),
                 created_at |-> dict_get(data, "created_at", EMPTY),
                 updated_at |-> dict_get(data, "updated_at", EMPTY),
                 message_count |-> Len(dict_get(data, "messages", << >>)),
                 preview |-> SubSeq(content.v, 1,
                                    IF Len(content.v) < PREVIEW_LEN
                                    THEN Len(content.v) ELSE PREVIEW_LEN) \o <<"...">>])

\* The loop over os.listdir: [raised, conversations].
RECURSIVE list_loop(_, _, _)
list_loop(fs, order, conversations) ==
    IF order = << >> THEN [raised |-> FALSE, conversations |-> conversations]
    ELSE LET f == fs[Head(order)]
             sm == summary_of(f.data)
         IN  IF ~f.valid THEN [raised |-> TRUE, conversations |-> conversations]
             ELSE IF sm.st = "raise" THEN [raised |-> TRUE, conversations |-> conversations]
             ELSE list_loop(fs, Tail(order), Append(conversations, sm.val))

\* The insertion of an ascending sort.
sort_insert_ascending(sorted, x) ==
    LET later == {i \in 1..Len(sorted) : sorted[i].updated_at > x.updated_at}
        at == IF later = {} THEN Len(sorted) + 1 ELSE CHOOSE i \in later : \A k \in later : i <= k
    IN  SubSeq(sorted, 1, at - 1) \o <<x>> \o SubSeq(sorted, at, Len(sorted))

\* list.sort(key=updated_at, reverse=True): stable, descending.
sort_insert(sorted, x) ==
    LET later == {i \in 1..Len(sorted) : sorted[i].updated_at < x.updated_at}
        at == IF later = {} THEN Len(sorted) + 1 ELSE CHOOSE i \in later : \A k \in later : i <= k
    IN  SubSeq(sorted, 1, at - 1) \o <<x>> \o SubSeq(sorted, at, Len(sorted))

RECURSIVE sort_by_updated_at_desc(_)
sort_by_updated_at_desc(seq) ==
    IF seq = << >> THEN << >>
    ELSE sort_insert(sort_by_updated_at_desc(SubSeq(seq, 1, Len(seq) - 1)), seq[Len(seq)])

\* list_conversations, with os.listdir answering `order`: [failed, conversations].
list_conversations(fs, exists, order) ==
    LET r == list_loop(fs, order, << >>)
    IN  IF ~exists THEN [failed |-> FALSE, conversations |-> << >>]
        ELSE IF r.raised THEN [failed |-> TRUE, conversations |-> r.conversations]
        ELSE [failed |-> FALSE, conversations |-> sort_by_updated_at_desc(r.conversations)]
----------------------------------------------------------------------------
\* The environment's inputs.

P(k, x) == [k |-> k, x |-> x]
Json(body) == [kind |-> "json", body |-> body]
Text(s) == Str(s)

UserInputs == <<Str(<<"hola">>)>>

\* Answers of the backend to the analysis call.
AnalysisAnswers ==
    << [kind |-> "error", detail |-> <<"Connection refused">>],
       [kind |-> "text", body |-> <<"<", "html", ">">>],
       Json(Obj(<<P("message", Obj(<<P("content", Str(<<" ", "NO_SEARCH", "\n">>))>>))>>)),
       Json(Obj(<<P("response", Str(<<"NO_SEARCH">>))>>)),
       Json(Obj(<<P("message", Obj(<<P("role", Str(<<"assistant">>))>>))>>)),
       Json(List(<< >>)),
       Json(Obj(<<P("message", Null)>>)),
       Json(Obj(<<P("message", Obj(<<P("content", Num(5))>>))>>)),
       Json(Obj(<<P("message", Obj(<<P("content",
            Str(<<"<", "search", ">", "cats", "<", "/", "search", ">">>))>>))>>)),
       Json(Obj(<<P("response", Str(<<" ", "<", "search", ">", "cats", "<", "/", "search", ">",
            "\n">>))>>)),
       Json(Obj(<<P("message", Obj(<<P("content",
            Str(<<"<", "search", ">", "<", "memory", ">", "cats", "<", "/", "memory", ">",
                  "<", "/", "search", ">">>))>>))>>)) >>

\* Answers of the backend to the generation call.
GenerationAnswers ==
    << [kind |-> "error", detail |-> <<"Connection refused">>],
       [kind |-> "text", body |-> <<" ", "ok", "\n">>],
       [kind |-> "text", body |-> << >>],
       Json(Obj(<<P("message", Obj(<<P("content", Str(<<"ok">>))>>))>>)),
       Json(Obj(<<P("message", Obj(<<P("content", Str(<< >>))>>)),
                  P("response", Str(<<"ok">>))>>)),
       Json(Obj(<<P("response", Str(<<"ok">>))>>)),
       Json(Obj(<<P("done", Num(1)), P("reply", Obj(<<P("content", Str(<<"ok">>))>>))>>)),
       Json(Obj(<< >>)),
       Json(List(<< >>)),
       Json(Obj(<<P("message", Null)>>)),
       Json(Obj(<<P("message", Str(<<"content">>))>>)),
       Json(Obj(<<P("message", Obj(<<P("content", Num(5))>>))>>)) >>

\* What conversation_dir holds when the sessions are constructed.
LEGACY_NO_ROLE ==
    [id |-> 0,
     messages |-> <<[content |-> Str(<<"hola">>), timestamp |-> 0]>>,
     created_at |-> 0, updated_at |-> 0]

InitialDirs ==
    << [exists |-> FALSE, files |-> << >>],
       [exists |-> TRUE, files |-> (0 :> json_dump(LEGACY_NO_ROLE))] >>

\* The permutations of a finite set, as sequences: the orders os.listdir may give.
Orders(S) ==
    {f \in [1..Cardinality(S) -> S] : \A i, j \in 1..Cardinality(S) : f[i] = f[j] => i = j}

----------------------------------------------------------------------------
\* State machine.

\* The state after the construction of the sessions; only those in `active` may
\* be constructed with save_conversations on.
InitWith(active) ==
    /\ clock = 0
    /\ nextId = 3
    /\ conv = Conversation(<< >>, 0, 0)
    /\ config \in [Sessions -> {Config(TRUE), Config(FALSE)}]
    /\ \A s \in Sessions \ active : ~config[s].save_conversations
    /\ conversation = [s \in Sessions |->
                          ChatSession_init(config[s], IF s = "s1" THEN 1 ELSE 2, 0)]
    /\ pc = [s \in Sessions |-> "Idle"]
    /\ pending = [s \in Sessions |-> Null]
    /\ calls = [s \in Sessions |-> << >>]
    /\ \E d \in 1..Len(InitialDirs) :
          \* __init__ line 149: os.makedirs when save_conversations is set
          /\ dirExists = (InitialDirs[d].exists \/ \E s \in Sessions : config[s].save_conversations)
          /\ files = InitialDirs[d].files
    /\ last = [op |-> "init"]

\* Sessions that do not persist (save_conversations off).
Init == InitWith({})

\* Time passes.
Tick ==
    /\ clock < MaxClock
    /\ clock' = clock + 1
    /\ UNCHANGED <<nextId, conv, config, conversation, pc, pending, calls, dirExists, files,
                   last>>

\* get_response(user_input) up to requests.post of analyze_prompt.
GetResponseStart(s, user_input) ==
    /\ pc[s] = "Idle"
    /\ Len(conversation[s].messages) + 2 <= MaxMessages
    /\ pc' = [pc EXCEPT ![s] = "AwaitingAnalysis"]
    /\ pending' = [pending EXCEPT ![s] = [user_input |-> user_input,
                                          before |-> conversation[s].messages]]
    /\ calls' = [calls EXCEPT ![s] = <<[purpose |-> "analysis", prompt |-> user_input]>>]
    /\ last' = [op |-> "get_response.start", s |-> s]
    /\ UNCHANGED <<clock, nextId, conv, config, conversation, dirExists, files>>

\* The analysis call returns: lines 177-199 and 227-251, up to requests.post of
\* the generation call (or to the return of the lookup branch).
GetResponseAnalysis(s, answer) ==
    LET search_command == analyze_prompt(answer)
        user_input == pending[s].user_input
        withUser == add_user_message(conversation[s], user_input, clock)
        r == get_response_lookup(conversation[s], user_input, search_command, clock)
    IN  /\ pc[s] = "AwaitingAnalysis"
        /\ IF Truthy(search_command)
           THEN /\ conversation' = [conversation EXCEPT ![s] = r.conversation]
                /\ pc' = [pc EXCEPT ![s] = "Idle"]
                /\ pending' = [pending EXCEPT ![s] = Null]
                /\ calls' = calls
                /\ last' = [op |-> "get_response", s |-> s, user_input |-> user_input,
                            before |-> pending[s].before,
                            search_command |-> search_command,
                            answer |-> answer, io |-> "none",
                            raised |-> FALSE, ret |-> r.ret]
           ELSE /\ conversation' = [conversation EXCEPT ![s] = withUser]
                /\ pc' = [pc EXCEPT ![s] = "GeneratingReply"]
                /\ pending' = [pending EXCEPT ![s] =
                        [user_input |-> user_input, before |-> pending[s].before,
                         search_command |-> search_command]]
                /\ calls' = [calls EXCEPT ![s] =
                        Append(@, [purpose |-> "generation",
                                   messages |-> to_ollama_messages(withUser)])]
                /\ last' = [op |-> "get_response.analysis", s |-> s, answer |-> answer]
        /\ UNCHANGED <<clock, nextId, conv, config, dirExists, files>>

\* The generation call returns: lines 256-304.
GetResponseGeneration(s, answer, io) ==
    LET r == get_response_reply(conversation[s], answer, clock)
        saves == r.save /\ config[s].save_conversations
    IN  /\ pc[s] = "GeneratingReply"
        /\ pc' = [pc EXCEPT ![s] = "Idle"]
        /\ pending' = [pending EXCEPT ![s] = Null]
        /\ conversation' = [conversation EXCEPT ![s] = r.conversation]
        /\ files' = IF saves THEN _save_conversation(files, dirExists, r.conversation, io)
                    ELSE files
        /\ last' = [op |-> "get_response", s |-> s, user_input |-> pending[s].user_input,
                    before |-> pending[s].before,
                    search_command |-> pending[s].search_command,
                    answer |-> answer,
                    io |-> IF saves THEN io ELSE "none",
                    raised |-> r.raised, ret |-> r.ret]
        /\ UNCHANGED <<clock, nextId, conv, config, calls, dirExists>>

ChangePersonality(s, personality_name) ==
    LET r == change_personality(config[s], conversation[s], personality_name, nextId, clock)
    IN  /\ pc[s] = "Idle"
        /\ nextId <= MaxIds
        /\ conversation' = [conversation EXCEPT ![s] = r.conversation]
        /\ nextId' = IF r.ret THEN nextId + 1 ELSE nextId
        /\ last' = [op |-> "change_personality", s |-> s, name |-> personality_name,
                    ret |-> r.ret]
        /\ UNCHANGED <<clock, conv, config, pc, pending, calls, dirExists, files>>

SaveConversation(s, io) ==
    /\ pc[s] = "Idle"
    /\ files' = _save_conversation(files, dirExists, conversation[s], io)
    /\ last' = [op |-> "save", s |-> s, io |-> IF dirExists THEN io ELSE "open_error"]
    /\ UNCHANGED <<clock, nextId, conv, config, conversation, pc, pending, calls, dirExists>>

LoadConversation(s, conversation_id) ==
    LET r == load_conversation(files, conversation[s], conversation_id, nextId, clock)
    IN  /\ pc[s] = "Idle"
        /\ conversation' = [conversation EXCEPT ![s] = r.conversation]
        /\ nextId' = IF r.used_uuid THEN nextId + 1 ELSE nextId
        /\ last' = [op |-> "load", s |-> s, id |-> conversation_id, ret |-> r.ret]
        /\ UNCHANGED <<clock, conv, config, pc, pending, calls, dirExists, files>>

ListConversations(s, order) ==
    LET r == list_conversations(files, dirExists, order)
    IN  /\ pc[s] = "Idle"
        /\ last' = [op |-> "list", s |-> s, failed |-> r.failed, ret |-> r.conversations]
        /\ UNCHANGED <<clock, nextId, conv, config, conversation, pc, pending, calls,
                       dirExists, files>>

\* One session taking up to two turns per conversation and changing personality,
\* with every answer of the backend; it does not persist, so the file system is
\* not asked.
Next ==
    \/ Tick
    \/ \E i \in 1..Len(UserInputs) : GetResponseStart("s1", UserInputs[i])
    \/ \E i \in 1..Len(AnalysisAnswers) : GetResponseAnalysis("s1", AnalysisAnswers[i])
    \/ \E i \in 1..Len(GenerationAnswers) :
          GetResponseGeneration("s1", GenerationAnswers[i], SaveOutcomes[1])
    \/ \E i \in 1..Len(PersonalityNames) : ChangePersonality("s1", PersonalityNames[i])

Spec == Init /\ [][Next]_vars

\* Two sessions on one conversation_dir: s1 takes turns, and both save, load and
\* list. The backend answers every analysis call with NO_SEARCH and every
\* generation call with a reply.
StoreAnalysisAnswers == <<AnalysisAnswers[3]>>
StoreGenerationAnswers == <<GenerationAnswers[4]>>

InitStore == InitWith({"s1"})

NextStore ==
    \/ Tick
    \/ \E i \in 1..Len(UserInputs) :
          /\ Len(conversation["s1"].messages) + 2 <= MaxStoreMessages
          /\ GetResponseStart("s1", UserInputs[i])
    \/ \E i \in 1..Len(StoreAnalysisAnswers) : GetResponseAnalysis("s1", StoreAnalysisAnswers[i])
    \/ \E i \in 1..Len(StoreGenerationAnswers), o \in 1..Len(SaveOutcomes) :
          GetResponseGeneration("s1", StoreGenerationAnswers[i], SaveOutcomes[o])
    \/ \E s \in Sessions, o \in 1..Len(SaveOutcomes) : SaveConversation(s, SaveOutcomes[o])
    \/ \E s \in Sessions, id \in DOMAIN files \cup {nextId} : LoadConversation(s, id)
    \/ \E s \in Sessions, order \in Orders(DOMAIN files) : ListConversations(s, order)

SpecStore == InitStore /\ [][NextStore]_vars

\* One session that persists or not: turns that take the lookup branch, fail in
\* transport or get a reply, changes of personality, and loads. The clock is read
\* as moving between the calls, not inside a turn.
SingleAnalysisAnswers == <<AnalysisAnswers[3], AnalysisAnswers[9]>>
SingleGenerationAnswers == <<GenerationAnswers[1], GenerationAnswers[4]>>
SinglePersonalityNames == <<"amable">>
SingleSaveOutcomes == <<"ok", "write_error">>

InitSingle == InitWith({"s1"})

NextSingle ==
    \/ pc["s1"] = "Idle" /\ Tick
    \/ \E i \in 1..Len(UserInputs) : GetResponseStart("s1", UserInputs[i])
    \/ \E i \in 1..Len(SingleAnalysisAnswers) :
          GetResponseAnalysis("s1", SingleAnalysisAnswers[i])
    \/ \E i \in 1..Len(SingleGenerationAnswers), o \in 1..Len(SingleSaveOutcomes) :
          GetResponseGeneration("s1", SingleGenerationAnswers[i], SingleSaveOutcomes[o])
    \/ \E i \in 1..Len(SinglePersonalityNames) :
          ChangePersonality("s1", SinglePersonalityNames[i])
    \/ \E id \in DOMAIN files \cup {nextId} : LoadConversation("s1", id)

SpecSingle == InitSingle /\ [][NextSingle]_vars

----------------------------------------------------------------------------
\* A Conversation object driven directly: construction, the three add_*_message
\* and from_dict of a record that may lack keys.

ConvPrompts == << << >>, SYSTEM_PROMPT >>
ConvContents == <<Str(<<"hola">>), Num(5)>>

\* dict restricted to the keys in K.
restrict(data, K) == [k \in DOMAIN data \cap K |-> data[k]]

\* to_dict(c) as an older or foreign writer may have left it: only the keys in
\* `keys`, and in every message only the keys in `mkeys`.
record_with(c, keys, mkeys) ==
    LET d == Conversation_to_dict(c)
        cut == [d EXCEPT !.messages = [i \in 1..Len(d.messages) |-> restrict(d.messages[i], mkeys)]]
    IN  restrict(cut, keys)

ConvNew(system_prompt) ==
    /\ nextId <= MaxIds
    /\ conv' = Conversation(system_prompt, nextId, clock)
    /\ nextId' = nextId + 1
    /\ last' = [op |-> "Conversation"]
    /\ UNCHANGED <<clock, config, conversation, pc, pending, calls, dirExists, files>>

ConvAdd(role, content) ==
    /\ Len(conv.messages) < MaxConvMessages
    /\ conv' = CASE role = "system" -> add_system_message(conv, content, clock)
                 [] role = "user" -> add_user_message(conv, content, clock)
                 [] role = "assistant" -> add_assistant_message(conv, content, clock)
    /\ last' = [op |-> "add_message", role |-> role]
    /\ UNCHANGED <<clock, nextId, config, conversation, pc, pending, calls, dirExists, files>>

ConvFromDict(data) ==
    /\ nextId <= MaxIds
    /\ conv' = IF Conversation_from_dict_raises(data) THEN conv
               ELSE Conversation_from_dict(data, nextId, clock)
    /\ nextId' = IF ~Conversation_from_dict_raises(data) /\ "id" \notin DOMAIN data
                 THEN nextId + 1 ELSE nextId
    /\ last' = [op |-> "from_dict", raised |-> Conversation_from_dict_raises(data)]
    /\ UNCHANGED <<clock, config, conversation, pc, pending, calls, dirExists, files>>

GetLastMessages(limit) ==
    /\ last' = [op |-> "get_last_messages", limit |-> limit,
                ret |-> get_last_messages(conv, limit)]
    /\ UNCHANGED <<clock, nextId, conv, config, conversation, pc, pending, calls,
                   dirExists, files>>

Limits == <<-1, 0, 1, 2, 3>>

\* The key sets of the records given to from_dict.
ConvKeys == {"id", "messages", "created_at", "updated_at"}
RecordKeys ==
    <<ConvKeys, ConvKeys \ {"id"}, ConvKeys \ {"created_at"}, ConvKeys \ {"updated_at"},
      ConvKeys \ {"messages"}, {}>>
MessageKeys == <<{"role", "content", "timestamp"}, {"role", "content"}, {"content", "timestamp"}>>

InitConv == InitWith({}) /\ ~dirExists

NextConv ==
    \/ Tick
    \/ \E i \in 1..Len(ConvPrompts) : ConvNew(ConvPrompts[i])
    \/ \E role \in {"system", "user", "assistant"}, i \in 1..Len(ConvContents) :
          ConvAdd(role, ConvContents[i])
    \/ \E k \in 1..Len(RecordKeys), m \in 1..Len(MessageKeys) :
          ConvFromDict(record_with(conv, RecordKeys[k], MessageKeys[m]))

SpecConv == InitConv /\ [][NextConv]_vars

\* A Conversation built by the constructor and add_*_message, and read by
\* get_last_messages.
InitLast == InitConv

NextLast ==
    \/ Tick
    \/ \E i \in 1..Len(ConvPrompts) : ConvNew(ConvPrompts[i])
    \/ \E role \in {"system", "user", "assistant"}, i \in 1..Len(ConvContents) :
          ConvAdd(role, ConvContents[i])
    \/ \E i \in 1..Len(Limits) : GetLastMessages(Limits[i])

SpecLast == InitLast /\ [][NextLast]_vars

----------------------------------------------------------------------------
\* process_search_commands applied to a text: the text is drawn when the state
\* is set up, as a sequence of at most MaxPieces pieces, each an opening tag, a
\* closing tag, a word or a line break.

TagKinds == <<"search", "memory", "query", "foo">>

Pieces ==
    {<<"<", TagKinds[k], ">">> : k \in 1..Len(TagKinds)}
        \cup {<<"<", "/", TagKinds[k], ">">> : k \in 1..Len(TagKinds)}
        \cup {<<"cats">>, <<"\n">>}

RECURSIVE flatten(_)
flatten(ps) == IF ps = << >> THEN << >> ELSE Head(ps) \o flatten(Tail(ps))

Texts == {flatten(ps) : ps \in UNION {[1..n -> Pieces] : n \in 0..MaxPieces}}

InitText ==
    /\ clock = 0
    /\ nextId = 3
    /\ conv = Conversation(<< >>, 0, 0)
    /\ config = [s \in Sessions |-> Config(FALSE)]
    /\ conversation = [s \in Sessions |->
                          ChatSession_init(config[s], IF s = "s1" THEN 1 ELSE 2, 0)]
    /\ pc = [s \in Sessions |-> "Idle"]
    /\ pending = [s \in Sessions |-> Null]
    /\ calls = [s \in Sessions |-> << >>]
    /\ dirExists = FALSE
    /\ files = << >>
    /\ last \in {[op |-> "text", text |-> t] : t \in Texts}

ProcessSearchCommands ==
    /\ last.op = "text"
    /\ last' = [op |-> "process_search_commands", text |-> last.text,
                ret |-> process_search_commands(last.text)]
    /\ UNCHANGED <<clock, nextId, conv, config, conversation, pc, pending, calls,
                   dirExists, files>>

NextText == ProcessSearchCommands

SpecText == InitText /\ [][NextText]_vars

----------------------------------------------------------------------------
\* Claims about get_response and change_personality (Spec).

\* The role and content of the messages after position n.
Appended(c, n) ==
    [i \in 1..(Len(c.messages) - n) |->
        [role |-> c.messages[n + i].role, content |-> c.messages[n + i].content]]

\* get_response of session s has just returned or raised.
Returned(s) == last.op = "get_response" /\ last.s = s

\* The log of s is the log at the call followed by user(user_input), assistant(ret).
TurnApplied(s) ==
    /\ SubSeq(conversation[s].messages, 1, Len(last.before)) = last.before
    /\ Appended(conversation[s], Len(last.before)) =
           <<[role |-> "user", content |-> last.user_input],
             [role |-> "assistant", content |-> last.ret]>>

LastRole(s) == conversation[s].messages[Len(conversation[s].messages)].role

\* C1: every get_response returns a string, raises nothing and grows the log by
\* exactly user(user_input), assistant(returned string), whatever the backend
\* answers; no session at rest has a log that ends with a user message.
C1_TurnAtomicity ==
    \A s \in Sessions :
        /\ Returned(s) => ~last.raised /\ last.ret.t = "str" /\ TurnApplied(s)
        /\ pc[s] = "Idle" /\ conversation[s].messages # << >> => LastRole(s) # "user"

\* C2: when the analysis gives no lookup and the generation call fails in
\* transport, get_response raises nothing, returns a non-empty string that
\* contains the failure detail, and appends user(user_input) and exactly one
\* assistant message whose content is that string.
C2_TransportFailureRecorded ==
    \A s \in Sessions :
        Returned(s) /\ Len(calls[s]) = 2 /\ last.answer.kind = "error" =>
            /\ ~last.raised
            /\ last.ret.t = "str" /\ last.ret.v # << >>
            /\ str_contains(last.ret.v, last.answer.detail)
            /\ TurnApplied(s)

C2_Witness ==
    /\ Returned("s1") /\ Len(calls["s1"]) = 2 /\ last.answer.kind = "error"
    /\ last.answer.detail = <<"Connection refused">>
    /\ Len(conversation["s1"].messages) = 3

\* The analysis call failed in transport or in the parsing of its answer, or its
\* trimmed result is exactly NO_SEARCH.
FailsOrNoSearch(answer) ==
    \/ answer.kind = "error"
    \/ answer.kind = "text"
    \/ /\ answer.kind = "json"
       /\ LET got == message_or_response(answer.body)
          IN  \/ got.st = "raise"
              \/ got.st = "ok" /\ got.val.t # "str"
              \/ got.st = "ok" /\ got.val.t = "str" /\ strip(got.val.v) = NO_SEARCH

\* C3: when the analysis call fails in transport or parsing, or its trimmed
\* result is exactly NO_SEARCH, get_response goes on to the generation branch:
\* the user message is appended and the generation call is issued.
C3_AnalysisFailsOpen ==
    \A s \in Sessions :
        /\ last.op = "get_response.analysis" /\ last.s = s /\ FailsOrNoSearch(last.answer) =>
              /\ pc[s] = "GeneratingReply"
              /\ Len(calls[s]) = 2 /\ calls[s][2].purpose = "generation"
              /\ Appended(conversation[s], Len(pending[s].before)) =
                     <<[role |-> "user", content |-> pending[s].user_input]>>
        /\ Returned(s) /\ Len(calls[s]) = 1 => ~FailsOrNoSearch(last.answer)
        /\ \A i \in 1..Len(AnalysisAnswers) :
              FailsOrNoSearch(AnalysisAnswers[i]) =>
                  ~Truthy(analyze_prompt(AnalysisAnswers[i]))

C3_Witness ==
    /\ last.op = "get_response.analysis" /\ last.s = "s1"
    /\ last.answer = AnalysisAnswers[3]
    /\ pc["s1"] = "GeneratingReply"

\* C4: a turn issues the analysis call first, and the generation call if and
\* only if the analysis produced no lookup command; the lookup branch returns
\* process_search_commands(analysis result) and records it as the assistant
\* message; a turn ends after at most two backend calls.
C4_CallOrder ==
    \A s \in Sessions :
        /\ Len(calls[s]) <= 2
        /\ calls[s] # << >> => calls[s][1].purpose = "analysis"
        /\ Len(calls[s]) = 2 => calls[s][2].purpose = "generation"
        /\ pc[s] = "AwaitingAnalysis" => Len(calls[s]) = 1
        /\ pc[s] = "GeneratingReply" => Len(calls[s]) = 2
        /\ Returned(s) =>
              /\ pc[s] = "Idle"
              /\ Len(calls[s]) = 2 <=> ~Truthy(last.search_command)
              /\ Truthy(last.search_command) =>
                    /\ last.ret = Str(process_search_commands(last.search_command.v))
                    /\ TurnApplied(s)

C4_Witness ==
    /\ Returned("s1") /\ Len(calls["s1"]) = 1
    /\ last.ret = Str(<<"[Searching internet for: ", "cats", "]">>)

\* The text holds a pair <kind>...</kind> with kind search, memory or query.
HasTagPair(text) ==
    \E i, j \in 1..Len(text) :
        /\ i + 3 <= j /\ j + 3 <= Len(text)
        /\ text[i] = "<" /\ text[i + 1] \in {"search", "memory", "query"} /\ text[i + 2] = ">"
        /\ SubSeq(text, j, j + 3) = <<"<", "/", text[i + 1], ">">>

\* C16: the reply of a turn that took the lookup branch, and the assistant
\* message recorded for it, hold no pair <kind>...</kind> of a lookup kind.
C16_NoMarkupInReply ==
    \A s \in Sessions :
        Returned(s) /\ Len(calls[s]) = 1 =>
            /\ ~HasTagPair(last.ret.v)
            /\ ~HasTagPair(conversation[s].messages[Len(conversation[s].messages)].content.v)

\* The text under key in a JSON object, the empty text when the key is absent.
FieldText(obj, key) == IF pairs_has(obj.v, key) THEN pairs_get(obj.v, key) ELSE Str(<< >>)

\* The body is a JSON object whose message, when present, is an object, and
\* whose message.content and response, when present, are texts.
TextualBody(body) ==
    /\ body.t = "obj"
    /\ FieldText(body, "message").t \in {"obj", "str"}
    /\ pairs_has(body.v, "message") => FieldText(body, "message").t = "obj"
    /\ pairs_has(body.v, "message") => FieldText(FieldText(body, "message"), "content").t = "str"
    /\ FieldText(body, "response").t = "str"

\* message.content, else response, else the scan of the fields: the first that
\* is not empty; the apology when none is.
FirstNonEmpty(body) ==
    LET content == IF pairs_has(body.v, "message")
                   THEN FieldText(FieldText(body, "message"), "content") ELSE Str(<< >>)
        response == FieldText(body, "response")
        scanned == scan_items(body.v)
    IN  IF content.v # << >> THEN content
        ELSE IF response.v # << >> THEN response
        ELSE IF Truthy(scanned) THEN scanned
        ELSE Str(APOLOGY)

\* C17: the reply of the generation branch is the text of the first strategy
\* that yields a non-empty text (message.content, then response, then the scan
\* of the top-level fields), and the apology only when none does.
C17_FirstNonEmptyStrategy ==
    \A s \in Sessions :
        (/\ Returned(s) /\ Len(calls[s]) = 2
         /\ last.answer.kind = "json" /\ TextualBody(last.answer.body))
        => last.ret = FirstNonEmpty(last.answer.body)

\* C20: while the generation call is out, its messages are the log of the
\* conversation, message for message, each with its role and content only, the
\* last being the user input of the turn; in the first turn after a change of
\* personality they are the new system message and the user input, and nothing
\* of the conversation that was replaced.
C20_GenerationPayload ==
    \A s \in Sessions :
        pc[s] = "GeneratingReply" =>
            LET payload == calls[s][2].messages
                log == conversation[s].messages
                n == Len(payload)
            IN  /\ n = Len(log)
                /\ \A i \in 1..n :
                      /\ DOMAIN payload[i] = {"role", "content"}
                      /\ payload[i].role = log[i].role
                      /\ payload[i].content = log[i].content
                /\ payload[n] = [role |-> "user", content |-> pending[s].user_input]
                /\ n = Len(pending[s].before) + 1
                /\ (conversation[s].id # 1 /\ Len(pending[s].before) = 1) =>
                      /\ n = 2
                      /\ payload[1].role = "system"
                      /\ payload[1].content # ChatSession_init(config[s], 1, 0).messages[1].content

C20_Witness ==
    /\ pc["s1"] = "GeneratingReply"
    /\ conversation["s1"].id # 1
    /\ Len(calls["s1"][2].messages) = 2
    /\ calls["s1"][2].messages[1].content = Str(<<"Eres amable con ", "Oz", ".">>)

\* The step is operation op of session s returning (Tick alone moves the clock).
Did(op, s) == last'.op = op /\ last'.s = s /\ clock' = clock

\* C5: change_personality with a name that is not configured returns failure
\* and leaves the active Conversation as it was: id, messages, created_at and
\* updated_at.
C5_UnknownPersonalityNoChange ==
    [][\A s \in Sessions :
          Did("change_personality", s) /\ last'.name \notin DOMAIN config[s].personalities =>
              ~last'.ret /\ conversation'[s] = conversation[s]]_vars

C5_Witness ==
    /\ last.op = "change_personality" /\ last.name = "desconocida" /\ ~last.ret
    /\ Len(conversation[last.s].messages) = 3

\* C6: change_personality with any configured name, whatever its prompt text,
\* returns success and replaces the Conversation by one with another id and
\* exactly one message, a system message.
C6_KnownPersonalityReplaces ==
    [][\A s \in Sessions :
          Did("change_personality", s) /\ last'.name \in DOMAIN config[s].personalities =>
              /\ last'.ret
              /\ conversation'[s].id # conversation[s].id
              /\ Len(conversation'[s].messages) = 1
              /\ conversation'[s].messages[1].role = "system"]_vars

----------------------------------------------------------------------------
\* Claims about the wire format (SpecConv).

\* C7: from_dict(to_dict(conv)) is conv again: same id, same messages (role,
\* content and timestamp of each, in order), same created_at and updated_at,
\* whatever uuid4 and the clock give while from_dict runs.
C7_WireRoundTrip ==
    /\ ~Conversation_from_dict_raises(Conversation_to_dict(conv))
    /\ \A uuid \in 0..(MaxIds + 1), now \in 0..(MaxClock + 1) :
          Conversation_from_dict(Conversation_to_dict(conv), uuid, now) = conv

C7_Witness ==
    /\ last.op = "add_message"
    /\ Len(conv.messages) >= 2
    /\ conv.messages[1].role = "system"
    /\ conv.updated_at > conv.created_at
    /\ conv.id # 0

----------------------------------------------------------------------------
\* Claims about the store (SpecStore).

\* C8: a save the file system accepts leaves, under the conversation's id, the
\* record to_dict(conversation) and touches no other file; saving again what the
\* file already holds leaves the directory as it was; and a load, by any
\* session, of the id of a conversation whose record is in the directory
\* succeeds and makes the loading session's conversation equal to it.
C8_StoreRoundTrip ==
    [][\A s \in Sessions :
          /\ Did("save", s) /\ last'.io = "ok" =>
                LET c == conversation[s]
                    record == json_dump(Conversation_to_dict(c))
                IN  /\ DOMAIN files' = DOMAIN files \cup {c.id}
                    /\ files'[c.id] = record
                    /\ \A id \in DOMAIN files \ {c.id} : files'[id] = files[id]
                    /\ (c.id \in DOMAIN files /\ files[c.id] = record) => files' = files
          /\ Did("load", s) =>
                \A t \in Sessions :
                    (/\ conversation[t].id = last'.id
                     /\ last'.id \in DOMAIN files
                     /\ files[last'.id] = json_dump(Conversation_to_dict(conversation[t])))
                    => last'.ret /\ conversation'[s] = conversation[t]]_vars

C8_Witness ==
    /\ last.op = "load" /\ last.s = "s2" /\ last.ret
    /\ conversation["s2"] = conversation["s1"]
    /\ Len(conversation["s1"].messages) = 3
    /\ files[last.id] = json_dump(Conversation_to_dict(conversation["s1"]))

\* No record for id, or one that is not JSON, or one with a message entry that
\* lacks role or content.
NotFoundOrMalformed(fs, id) ==
    \/ id \notin DOMAIN fs
    \/ ~fs[id].valid
    \/ \E i \in 1..Len(dict_get(fs[id].data, "messages", << >>)) :
          \/ "role" \notin DOMAIN fs[id].data["messages"][i]
          \/ "content" \notin DOMAIN fs[id].data["messages"][i]

\* C9: a load of an id with no record or with a malformed record returns False
\* and leaves every session's conversation, and the directory, as they were.
C9_LoadFailureChangesNothing ==
    [][\A s \in Sessions :
          Did("load", s) /\ NotFoundOrMalformed(files, last'.id) =>
              /\ ~last'.ret
              /\ conversation' = conversation
              /\ files' = files
              /\ pc' = pc]_vars

C9_Witness ==
    /\ last.op = "load" /\ ~last.ret
    /\ last.id \in DOMAIN files /\ files[last.id].valid
    /\ Len(conversation[last.s].messages) = 3

\* A record that is JSON and has at least one message.
WellFormed(f) == f.valid /\ dict_get(f.data, "messages", << >>) # << >>

\* C10: list_conversations gives the empty list when the directory does not
\* exist or holds no file; when every record is well-formed it gives one summary
\* for each record, with the record's id, created_at, updated_at and number of
\* messages, the later updated_at first.
C10_ListSummaries ==
    last.op = "list" =>
        LET ret == last.ret
        IN  /\ (~dirExists \/ DOMAIN files = {}) => ret = << >>
            /\ (dirExists /\ \A id \in DOMAIN files : WellFormed(files[id])) =>
                  /\ ~last.failed
                  /\ Len(ret) = Cardinality(DOMAIN files)
                  /\ \A id \in DOMAIN files :
                        Cardinality({i \in 1..Len(ret) :
                            /\ ret[i].id = id
                            /\ ret[i].created_at = files[id].data.created_at
                            /\ ret[i].updated_at = files[id].data.updated_at
                            /\ ret[i].message_count = Len(files[id].data.messages)}) = 1
                  /\ \A i, j \in 1..Len(ret) : i < j => ret[i].updated_at >= ret[j].updated_at

C10_Witness ==
    /\ last.op = "list" /\ ~last.failed
    /\ \A id \in DOMAIN files : WellFormed(files[id])
    /\ Len(last.ret) = 2
    /\ last.ret[1].updated_at > last.ret[2].updated_at
    /\ last.ret[1].message_count = 3

\* C11: when some record of the directory is corrupt (not JSON, or with an empty
\* list of messages), list_conversations gives a result with no summary in it,
\* whatever order os.listdir gives.
C11_CorruptRecordFailsListing ==
    last.op = "list" /\ dirExists /\ (\E id \in DOMAIN files : ~WellFormed(files[id])) =>
        last.ret = << >>

\* C13: no two sessions on one conversation_dir hold conversations with the
\* same id.
C13_ExclusiveConversationId ==
    \A s, t \in Sessions : s # t => conversation[s].id # conversation[t].id

\* C18: with save_conversations on and a file system that accepts the write,
\* a turn of the generation branch whose call succeeded leaves under the
\* conversation's id the record of the conversation as it is after the turn,
\* user message and reply included; with save_conversations off no step of
\* get_response changes the directory.
C18_TurnIsSaved ==
    [][\A s \in Sessions :
          /\ (/\ Did("get_response", s) /\ Len(calls'[s]) = 2
              /\ config[s].save_conversations
              /\ ~last'.raised /\ last'.answer.kind # "error"
              /\ last'.io \notin {"open_error", "write_error"})
             => /\ conversation'[s].id \in DOMAIN files'
                /\ files'[conversation'[s].id] =
                       json_dump(Conversation_to_dict(conversation'[s]))
                /\ Appended(conversation'[s], Len(conversation'[s].messages) - 2) =
                       <<[role |-> "user", content |-> last'.user_input],
                         [role |-> "assistant", content |-> last'.ret]>>
          /\ (/\ \/ Did("get_response.start", s)
                 \/ Did("get_response.analysis", s)
                 \/ Did("get_response", s)
              /\ ~config[s].save_conversations)
             => files' = files]_vars

C18_Witness ==
    /\ Returned("s1") /\ Len(calls["s1"]) = 2 /\ last.io = "ok"
    /\ config["s1"].save_conversations
    /\ Len(conversation["s1"].messages) = 3
    /\ conversation["s1"].updated_at > conversation["s1"].created_at
    /\ files[conversation["s1"].id] = json_dump(Conversation_to_dict(conversation["s1"]))

----------------------------------------------------------------------------
\* Claims about the Conversation object (SpecConv and SpecLast).

\* C12: every Conversation built by the constructor, by add_*_message and by
\* from_dict of a record, keys missing or not, has updated_at >= created_at; and
\* after an add_*_message updated_at is the time of the appended message.
C12_TimestampOrder ==
    /\ conv.updated_at >= conv.created_at
    /\ last.op = "add_message" =>
          conv.updated_at = conv.messages[Len(conv.messages)].timestamp

----------------------------------------------------------------------------
\* Claims about process_search_commands (SpecText).

\* The kinds process_search_commands gives a placeholder for.
Placeholder(kind) ==
    CASE kind = "search" -> "[Searching internet for: "
      [] kind = "memory" -> "[Searching memory for: "
      [] kind = "query" -> "[Querying database for: "

\* C14: a text that is one pair <kind>payload</kind> with kind search, memory or
\* query and a payload without tags becomes the placeholder of the kind around
\* the payload; a text with no tag in it is left as it was.
C14_ReplacesMatchedPairs ==
    last.op = "process_search_commands" =>
        LET text == last.text
            n == Len(text)
            payload == SubSeq(text, 4, n - 4)
        IN  /\ (/\ n >= 7
                /\ text[1] = "<" /\ text[2] \in {"search", "memory", "query"} /\ text[3] = ">"
                /\ SubSeq(text, n - 3, n) = <<"<", "/", text[2], ">">>
                /\ \A i \in 1..Len(payload) : payload[i] \notin {"<", ">"})
               => last.ret = <<Placeholder(text[2])>> \o payload \o <<"]">>
            /\ (\A i \in 1..n : text[i] # "<") => last.ret = text

----------------------------------------------------------------------------
\* Claims about one persisting session (SpecSingle).

IsPrefix(a, b) == Len(a) <= Len(b) /\ SubSeq(b, 1, Len(a)) = a

\* The directory holds a readable record under the id of the conversation of s.
HasRecord(s) ==
    /\ conversation[s].id \in DOMAIN files
    /\ files[conversation[s].id].valid

\* C19: when the directory holds a record under the id of the session's
\* conversation, the record has the conversation's created_at and its messages
\* are a prefix of the conversation's messages; and no step of get_response
\* removes or alters a message that is in the log.
C19_StoredPrefix ==
    [][\A s \in {"s1"} :
          /\ HasRecord(s)' =>
                LET c == conversation'[s]
                    record == files'[c.id].data
                IN  /\ record.created_at = c.created_at
                    /\ IsPrefix(record.messages, Conversation_to_dict(c).messages)
          /\ (/\ \/ Did("get_response.start", s)
                 \/ Did("get_response.analysis", s)
                 \/ Did("get_response", s))
             => IsPrefix(conversation[s].messages, conversation'[s].messages)]_vars

C19_Witness ==
    /\ HasRecord("s1")
    /\ Returned("s1") /\ Len(calls["s1"]) = 1
    /\ Len(files[conversation["s1"].id].data.messages) = 3
    /\ Len(conversation["s1"].messages) = 5

====
